---- MODULE Spec2Model ----
(***************************************************************************)
(* crate_upd_bot: the poll loop of src/main.rs (main, pull, diff_one,      *)
(* notify, notify_inner, fast_forward) and the subscription commands of    *)
(* src/bot.rs (dispatch), as one state machine.                            *)
(*                                                                         *)
(* The index is a linear history.  Commit 0 is the root commit, commit c   *)
(* (c >= 1) is the c-th commit of the remote master branch and remote[c]   *)
(* is the line diff between the trees of c-1 and c.  Ancestry is <=.       *)
(***************************************************************************)
EXTENDS Integers, Sequences, FiniteSets, TLC

(* ------------------------------ bounds --------------------------------- *)
MaxCommit == 3        \* commits the remote ever holds (besides the root)
MaxLines == 3         \* lines of a diff handed to diff_one in SpecClassify
MaxFork == 2          \* commits of a history rewritten upstream (SpecAdvance)

(* ----------------------------- constants ------------------------------- *)
Crates == {"a", "b"}
Chats == {1, 2}
ChannelId == 0        \* cfg.channel = Some(ChannelId); never a subscriber
Recipients == Chats \cup {ChannelId}

None == <<>>          \* Option<T>: None is <<>>, Some(x) is <<x>>
Some(x) == <<x>>

(* krate::Crate, as far as main.rs reads it: id.name and yanked *)
Crate == [name : Crates, yanked : BOOLEAN]

(* one line handed to the line callback of Diff::foreach *)
Deltas == {"Modified", "Added", "Deleted"}
Origins == {"-", "+", " "}
Jsons == {Some(k) : k \in Crate} \cup {None}   \* None: not a Crate record
DiffLine == [status : Deltas, origin : Origins, json : Jsons]

Line(s, o, j) == [status |-> s, origin |-> o, json |-> j]

(* ---------------------------- diff_one --------------------------------- *)
(* the callback without its two assert!s: a later line replaces an earlier *)
LineCallbackKeepsLast(st, line) ==
    IF st.panic THEN st
    ELSE IF line.status \in {"Modified", "Added"}
    THEN CASE line.origin = "-" ->
                IF line.json = None
                THEN [st EXCEPT !.panic = TRUE]
                ELSE [st EXCEPT !.prev = line.json]
           [] line.origin = "+" ->
                IF line.json = None
                THEN [st EXCEPT !.panic = TRUE]
                ELSE [st EXCEPT !.next = line.json]
           [] OTHER -> st
    ELSE st

(* the callback without its match on delta.status() *)
LineCallbackAnyDelta(st, line) ==
    IF st.panic THEN st
    ELSE CASE line.origin = "-" ->
                IF st.prev # None \/ line.json = None
                THEN [st EXCEPT !.panic = TRUE]
                ELSE [st EXCEPT !.prev = line.json]
           [] line.origin = "+" ->
                IF st.next # None \/ line.json = None
                THEN [st EXCEPT !.panic = TRUE]
                ELSE [st EXCEPT !.next = line.json]
           [] OTHER -> st

(* The line callback, applied to one line; st = [prev, next, panic].      *)
(* assert!(delta.nfiles() == 2 || delta.nfiles() == 1) holds of every      *)
(* Modified (two files) and Added (one file) delta.                        *)
LineCallback(st, line) ==
    IF st.panic THEN st
    ELSE IF line.status \in {"Modified", "Added"}
    THEN CASE line.origin = "-" ->
                IF st.prev # None \/ line.json = None
                THEN [st EXCEPT !.panic = TRUE]
                ELSE [st EXCEPT !.prev = line.json]
           [] line.origin = "+" ->
                IF st.next # None \/ line.json = None
                THEN [st EXCEPT !.panic = TRUE]
                ELSE [st EXCEPT !.next = line.json]
           [] OTHER -> st
    ELSE st   \* "Unexpected delta" warning

RECURSIVE DiffForeach(_, _)
DiffForeach(st, lines) ==
    IF lines = <<>> THEN st
    ELSE DiffForeach(LineCallback(st, Head(lines)), Tail(lines))

ScanStart == [prev |-> None, next |-> None, panic |-> FALSE]
Scan(diff) == DiffForeach(ScanStart, diff)

(* Option<bool> of the deleted line's yanked flag *)
PrevYanked(prev) == IF prev = None THEN None ELSE Some(prev[1].yanked)

(* the match taking every added yanked record for a yank *)
ActionOfYankedAdded(py, ny) ==
    CASE py = None /\ ny = FALSE -> "NewVersion"
      [] py # Some(TRUE) /\ ny = TRUE -> "Yanked"
      [] py = Some(TRUE) /\ ny = FALSE -> "Unyanked"
      [] OTHER -> "Err"

(* the match with the arms of the two yanked transitions exchanged *)
ActionOfSwapped(py, ny) ==
    CASE py = None /\ ny = FALSE -> "NewVersion"
      [] py = Some(FALSE) /\ ny = TRUE -> "Unyanked"
      [] py = Some(TRUE) /\ ny = FALSE -> "Yanked"
      [] OTHER -> "Err"

(* the match of diff_one on (prev.yanked, next.yanked) *)
ActionOf(py, ny) ==
    CASE py = None /\ ny = FALSE -> "NewVersion"
      [] py = Some(FALSE) /\ ny = TRUE -> "Yanked"
      [] py = Some(TRUE) /\ ny = FALSE -> "Unyanked"
      [] OTHER -> "Err"

Outcome(t, k, a) == [tag |-> t, krate |-> k, action |-> a]

(* diff_one after the foreach: next.expect(..) and the match *)
Finish(st) ==
    IF st.panic \/ st.next = None THEN Outcome("Panic", None, "none")
    ELSE LET a == ActionOf(PrevYanked(st.prev), st.next[1].yanked) IN
         IF a = "Err" THEN Outcome("Err", None, "none")
         ELSE Outcome("Ok", st.next, a)

DiffOne(diff) == Finish(Scan(diff))

(* -------------------------- the index history -------------------------- *)
(* A commit of the index changes one version line of one crate file: the  *)
(* old line (if any) is deleted and the new one added.                     *)
Change(n, py, y) ==
    (IF py = None THEN <<>>
     ELSE <<Line("Modified", "-", Some([name |-> n, yanked |-> py[1]]))>>)
    \o <<Line("Modified", "+", Some([name |-> n, yanked |-> y]))>>

(* What upstream pushes, one diff for each way diff_one can end: a new    *)
(* version of either crate (Ok), a line rewritten with its yanked flag     *)
(* unchanged (Err), a version published already yanked (Err) and a line    *)
(* that is no Crate record (panic).  Every diff of up to MaxLines lines    *)
(* goes through diff_one in SpecClassify.                                  *)
PublishedDiffs ==
    {Change(n, None, FALSE) : n \in Crates}
    \cup {Change("a", Some(FALSE), FALSE), Change("a", None, TRUE),
          <<Line("Modified", "+", None)>>}

(* the commit the index is cloned at *)
InitialCommit == Change("a", None, FALSE)

VARIABLES
    remote,     \* fetched commits of remote master: remote[c] is the diff of commit c
    subs,       \* Subscription Store: set of <<chat, crate name>>
    channel,    \* cfg.channel: Option<i64>
    head,       \* local HEAD / refs/heads/master: the checkpoint
    fetchHead,  \* FETCH_HEAD
    pc,         \* position of the poll task
    commits,    \* pull: the collected revwalk
    w,          \* pull: index of the current window in commits
    event,      \* pull: result of diff_one for the current window
    users,      \* notify: result of list_subscribers
    idx,        \* notify: position in the recipient sequence
    inflight,   \* notify_inner: the request being awaited, Option
    results,    \* notify: outcome of every finished send of this dispatch
    delays,     \* notify_inner: broadcast delays elapsed in this dispatch
    log,        \* error log lines written by this dispatch
    completed,  \* history: commits whose dispatch (notify) has returned
    advanced,   \* history: commits fast_forward has moved the checkpoint to
    interrupted,\* history: commits ahead of the checkpoint with a dispatch that
                \*   started a send and was cut short by the end of the process
    lastSent,   \* history: [<<chat, crate>> -> commit of the latest send started]
    failed,     \* history: Option, the latest window diff_one failed on and the
                \*   checkpoint the cycle of that failure began at
    diff,       \* diff_one: the lines of the diff (SpecClassify)
    pos,        \* diff_one: lines the foreach has handed to the callback
    st,         \* diff_one: prev, next and whether the callback panicked
    outcome     \* diff_one: what it returned, once it has

world == <<remote, subs, channel>>
repo == <<head, fetchHead>>
locals == <<commits, w, event, users, idx, inflight, results, delays, log>>
past == <<completed, advanced, lastSent, failed>>
history == <<past, interrupted>>
scanner == <<diff, pos, st, outcome>>
vars == <<world, repo, pc, locals, history, scanner>>

NoEvent == Outcome("none", None, "none")

(* the locals of a poll task that is not inside pull *)
Idle ==
    /\ commits = <<>> /\ w = 0 /\ event = NoEvent /\ users = <<>> /\ idx = 0
    /\ inflight = None /\ results = <<>> /\ delays = 0 /\ log = <<>>

IdleNext ==
    /\ commits' = <<>> /\ w' = 0 /\ event' = NoEvent /\ users' = <<>> /\ idx' = 0
    /\ inflight' = None /\ results' = <<>> /\ delays' = 0 /\ log' = <<>>

(* Repository::clone at startup: HEAD is the remote head of that moment;  *)
(* an index of the root commit alone is the other possibility.            *)
Init ==
    /\ remote \in {<<>>, <<InitialCommit>>}
    /\ subs = {}
    /\ channel \in {None, Some(ChannelId)}
    /\ head = Len(remote)
    /\ fetchHead = Len(remote)
    /\ pc = "fetch"
    /\ Idle
    /\ completed = {} /\ advanced = {}
    /\ interrupted = {}
    /\ lastSent = [k \in Recipients \X Crates |-> 0]
    /\ failed = None
    /\ diff = <<>> /\ pos = 0 /\ st = ScanStart /\ outcome = NoEvent

(* ------------------------------ helpers -------------------------------- *)
(* a revwalk with no lower end: everything reachable from FETCH_HEAD *)
RevWalkFromRoot(h, f) == [i \in 1..(f + 1) |-> i - 1]

(* a revwalk of "HEAD~2..FETCH_HEAD": one commit too early *)
RevWalkFromParent(h, f) == [i \in 1..(IF f >= h THEN f - h + 2 ELSE 0) |-> h + i - 2]

(* revwalk of "HEAD~1..FETCH_HEAD", TOPOLOGICAL | REVERSE: the commits    *)
(* reachable from FETCH_HEAD and not from the parent of HEAD, oldest first *)
RevWalk(h, f) == [i \in 1..(IF f >= h THEN f - h + 1 ELSE 0) |-> h + i - 1]

(* diff_tree_to_tree of two adjacent commits *)
Flip(l) == [l EXCEPT !.origin = CASE l.origin = "+" -> "-"
                                   [] l.origin = "-" -> "+"
                                   [] OTHER -> l.origin]
TreeDiff(prev, next) ==
    IF next = prev + 1 THEN remote[next]
    ELSE IF prev = next + 1 THEN [i \in 1..Len(remote[prev]) |-> Flip(remote[prev][i])]
    ELSE <<>>

(* ancestry, a is b or an ancestor of b: 0, 1, 2, .. is the history the    *)
(* poll loop follows; -1, -2, .. is a history rewritten upstream, which    *)
(* shares the root commit alone with it                                    *)
IsAncestor(a, b) ==
    IF a >= 0 /\ b >= 0 THEN a <= b
    ELSE IF a <= 0 /\ b <= 0 THEN b <= a
    ELSE FALSE

(* merge_analysis of fast_forward: the commit against HEAD *)
MergeAnalysis(h, commit) ==
    CASE IsAncestor(commit, h) -> "up_to_date"
      [] IsAncestor(h, commit) -> "fast_forward"
      [] OTHER -> "normal"

(* the recipients of notify, in the order of its sends *)
Queue(ch, us) == ch \o us

Range(q) == {q[i] : i \in 1..Len(q)}

(* every order in which the store may list a set of chats *)
Listings(S) == {q \in [1..Cardinality(S) -> S] :
                    \A i, j \in 1..Len(q) : i # j => q[i] # q[j]}

Subscribers(name) == {c \in Chats : <<c, name>> \in subs}

(* bot.rs: the crate file exists in the checked-out index *)
CrateExists(name) ==
    \E c \in 1..head : \E i \in 1..Len(remote[c]) :
        /\ remote[c][i].origin = "+"
        /\ remote[c][i].json # None
        /\ remote[c][i].json[1].name = name

Window == IF w >= 1 /\ w + 1 <= Len(commits) THEN <<commits[w], commits[w + 1]>> ELSE <<>>
NextCommit == commits[w + 1]

(* ------------------------------ actions -------------------------------- *)
Subscribe ==
    /\ \E c \in Chats, n \in Crates :
          /\ CrateExists(n)
          /\ <<c, n>> \notin subs
          /\ subs' = subs \cup {<<c, n>>}
    /\ UNCHANGED <<scanner, remote, channel, repo, pc, locals, history>>

Unsubscribe ==
    /\ \E c \in Chats, n \in Crates :
          /\ <<c, n>> \in subs
          /\ subs' = subs \ {<<c, n>>}
    /\ UNCHANGED <<scanner, remote, channel, repo, pc, locals, history>>

(* the commits the checkpoint has reached are dropped from interrupted *)
LeaveBehind == interrupted' = {c \in interrupted : c > head}

(* the process ends: a dispatch that has started a send is cut short *)
CutShort ==
    interrupted' =
        {c \in interrupted \cup
                (IF pc \in {"send", "sending", "delay", "ff"}
                    /\ (results # <<>> \/ inflight # None)
                 THEN {NextCommit} ELSE {}) : c > head}

(* a panic, or Err out of pull into expect("pull failed"): the process ends *)
Die == pc' = "panicked" /\ IdleNext /\ CutShort

(* remote.fetch(["master"]): the commits upstream has pushed since the    *)
(* last fetch arrive in the object database and FETCH_HEAD is their tip   *)
Fetch ==
    /\ pc = "fetch"
    /\ \E k \in 0..(MaxCommit - Len(remote)) : \E ds \in [1..k -> PublishedDiffs] :
          /\ remote' = remote \o ds
          /\ fetchHead' = Len(remote) + k
    /\ pc' = "walk"
    /\ UNCHANGED <<scanner, subs, channel, head, locals, history>>

FetchFail ==
    /\ pc = "fetch"
    /\ Die
    /\ UNCHANGED <<scanner, world, repo, past>>

Walk ==
    /\ pc = "walk"
    /\ head >= 1
    /\ commits' = RevWalk(head, fetchHead)
    /\ w' = 1
    /\ pc' = "window"
    /\ UNCHANGED <<scanner, world, repo, event, users, idx, inflight, results, delays, log,
                   history>>

(* HEAD~1 of the root commit does not resolve *)
WalkFail ==
    /\ pc = "walk"
    /\ head = 0
    /\ Die
    /\ UNCHANGED <<scanner, world, repo, past>>

PullReturns ==
    /\ pc = "window"
    /\ Window = <<>>
    /\ pc' = "sleep"
    /\ IdleNext
    /\ UNCHANGED <<scanner, world, repo, history>>

(* pull with fast_forward called before notify *)
ClassifyAdvancing ==
    /\ pc = "window"
    /\ Window # <<>>
    /\ LET o == DiffOne(TreeDiff(Window[1], Window[2])) IN
          /\ o.tag = "Ok"
          /\ event' = o
    /\ head' = NextCommit
    /\ advanced' = advanced \cup {NextCommit}
    /\ pc' = "notify"
    /\ UNCHANGED <<scanner, world, fetchHead, commits, w, users, idx, inflight, results,
                   delays, log, completed, lastSent, failed, interrupted>>

Classify ==
    /\ pc = "window"
    /\ Window # <<>>
    /\ LET o == DiffOne(TreeDiff(Window[1], Window[2])) IN
          /\ o.tag = "Ok"
          /\ event' = o
    /\ pc' = "notify"
    /\ UNCHANGED <<scanner, world, repo, commits, w, users, idx, inflight, results, delays, log,
                   history>>

(* pull that logs a failed diff_one and goes on to fast_forward *)
ClassifyFailSkips ==
    /\ pc = "window"
    /\ Window # <<>>
    /\ DiffOne(TreeDiff(Window[1], Window[2])).tag # "Ok"
    /\ failed' = Some([window |-> Window, cycleHead |-> commits[1]])
    /\ pc' = "ff"
    /\ UNCHANGED <<scanner, world, repo, locals, completed, advanced, lastSent,
                   interrupted>>

(* pull that puts the checkpoint back where the cycle began when diff_one fails *)
ClassifyFailRollsBack ==
    /\ pc = "window"
    /\ Window # <<>>
    /\ DiffOne(TreeDiff(Window[1], Window[2])).tag # "Ok"
    /\ failed' = Some([window |-> Window, cycleHead |-> commits[1]])
    /\ head' = commits[1]
    /\ Die
    /\ UNCHANGED <<scanner, world, fetchHead, completed, advanced, lastSent>>

ClassifyFail ==
    /\ pc = "window"
    /\ Window # <<>>
    /\ DiffOne(TreeDiff(Window[1], Window[2])).tag # "Ok"
    /\ failed' = Some([window |-> Window, cycleHead |-> commits[1]])
    /\ Die
    /\ UNCHANGED <<scanner, world, repo, completed, advanced, lastSent>>

(* notify returning as soon as list_subscribers has failed *)
ListSubscribersOrReturn ==
    /\ pc = "notify"
    /\ \/ /\ \E q \in Listings(Subscribers(event.krate[1].name)) :
                users' = q /\ log' = <<>>
          /\ idx' = 1
          /\ pc' = "send"
          /\ UNCHANGED completed
       \/ /\ users' = <<>> /\ log' = <<"db error while getting subscribers">>
          /\ idx' = 1
          /\ completed' = completed \cup {NextCommit}
          /\ pc' = "ff"
    /\ results' = <<>>
    /\ delays' = 0
    /\ UNCHANGED <<scanner, world, repo, commits, w, event, inflight, advanced, lastSent,
                   failed, interrupted>>

(* notify up to the first send: the message and list_subscribers *)
ListSubscribers ==
    /\ pc = "notify"
    /\ \/ \E q \in Listings(Subscribers(event.krate[1].name)) :
             users' = q /\ log' = <<>>
       \/ users' = <<>> /\ log' = <<"db error while getting subscribers">>
    /\ idx' = 1
    /\ results' = <<>>
    /\ delays' = 0
    /\ pc' = "send"
    /\ UNCHANGED <<scanner, world, repo, commits, w, event, inflight, history>>

(* notify asking the store for the subscribers again before each send *)
SendStartRereads ==
    /\ pc = "send"
    /\ idx <= Len(Queue(channel, users))
    /\ \E q \in Listings(Subscribers(event.krate[1].name)) :
          /\ idx <= Len(Queue(channel, q))
          /\ users' = q
          /\ inflight' = Some(Queue(channel, q)[idx])
          /\ lastSent' = [lastSent EXCEPT
                            ![<<Queue(channel, q)[idx], event.krate[1].name>>] = NextCommit]
    /\ pc' = "sending"
    /\ UNCHANGED <<scanner, world, repo, commits, w, event, idx, results, delays, log,
                   completed, advanced, failed, interrupted>>

SendStart ==
    /\ pc = "send"
    /\ idx <= Len(Queue(channel, users))
    /\ inflight' = Some(Queue(channel, users)[idx])
    /\ lastSent' = [lastSent EXCEPT
                      ![<<Queue(channel, users)[idx], event.krate[1].name>>] = NextCommit]
    /\ pc' = "sending"
    /\ UNCHANGED <<scanner, world, repo, commits, w, event, users, idx, results, delays, log,
                   completed, advanced, failed, interrupted>>

(* notify_inner without its delay_for *)
SendOkNoDelay ==
    /\ pc = "sending"
    /\ results' = Append(results, [chat |-> inflight[1], ok |-> TRUE])
    /\ inflight' = None
    /\ idx' = idx + 1
    /\ pc' = "send"
    /\ UNCHANGED <<scanner, world, repo, commits, w, event, users, delays, log,
                   history>>

SendOk ==
    /\ pc = "sending"
    /\ results' = Append(results, [chat |-> inflight[1], ok |-> TRUE])
    /\ inflight' = None
    /\ pc' = "delay"
    /\ UNCHANGED <<scanner, world, repo, commits, w, event, users, idx, delays, log,
                   history>>

(* a send error that ends notify: the remaining recipients are not sent to *)
SendErrAborts ==
    /\ pc = "sending"
    /\ results' = Append(results, [chat |-> inflight[1], ok |-> FALSE])
    /\ log' = Append(log, "send error")
    /\ inflight' = None
    /\ completed' = completed \cup {NextCommit}
    /\ pc' = "ff"
    /\ UNCHANGED <<scanner, world, repo, commits, w, event, users, idx, delays,
                   advanced, lastSent, failed, interrupted>>

(* a send error propagated with ? out of pull *)
SendErrFatal ==
    /\ pc = "sending"
    /\ Die
    /\ UNCHANGED <<scanner, world, repo, past>>

(* a send error answered by sending to the same recipient again *)
SendErrRetries ==
    /\ pc = "sending"
    /\ results' = Append(results, [chat |-> inflight[1], ok |-> FALSE])
    /\ log' = Append(log, "send error")
    /\ inflight' = None
    /\ pc' = "send"
    /\ UNCHANGED <<scanner, world, repo, commits, w, event, users, idx, delays, history>>

(* log_on_error: the error is logged and dropped *)
SendErr ==
    /\ pc = "sending"
    /\ results' = Append(results, [chat |-> inflight[1], ok |-> FALSE])
    /\ log' = Append(log, "send error")
    /\ inflight' = None
    /\ pc' = "delay"
    /\ UNCHANGED <<scanner, world, repo, commits, w, event, users, idx, delays, history>>

BroadcastDelay ==
    /\ pc = "delay"
    /\ delays' = delays + 1
    /\ idx' = idx + 1
    /\ pc' = "send"
    /\ UNCHANGED <<scanner, world, repo, commits, w, event, users, inflight, results, log,
                   history>>

NotifyReturns ==
    /\ pc = "send"
    /\ idx > Len(Queue(channel, users))
    /\ completed' = completed \cup {NextCommit}
    /\ pc' = "ff"
    /\ UNCHANGED <<scanner, world, repo, locals, advanced, lastSent, failed, interrupted>>

(* fast_forward setting the reference whatever merge_analysis says *)
FastForwardForced ==
    /\ pc = "ff"
    /\ head' = NextCommit
    /\ advanced' = advanced \cup {NextCommit}
    /\ pc' = "update_delay"
    /\ UNCHANGED <<locals, interrupted>>
    /\ UNCHANGED <<scanner, world, fetchHead, completed, lastSent, failed>>

(* fast_forward(repo, next): Ok untouched when up to date, the reference,  *)
(* HEAD and the checkout moved on a fast-forward, Err("Fast-forward only!") *)
(* otherwise, which ends the process through expect("pull failed")         *)
FastForward ==
    /\ pc = "ff"
    /\ CASE MergeAnalysis(head, NextCommit) = "up_to_date" ->
               /\ pc' = "update_delay"
               /\ UNCHANGED <<head, advanced, locals, interrupted>>
         [] MergeAnalysis(head, NextCommit) = "fast_forward" ->
               /\ head' = NextCommit
               /\ advanced' = advanced \cup {NextCommit}
               /\ pc' = "update_delay"
               /\ UNCHANGED <<locals, interrupted>>
         [] OTHER ->
               /\ Die
               /\ UNCHANGED <<head, advanced>>
    /\ UNCHANGED <<scanner, world, fetchHead, completed, lastSent, failed>>

UpdateDelay ==
    /\ pc = "update_delay"
    /\ w' = w + 1
    /\ event' = NoEvent /\ users' = <<>> /\ idx' = 0 /\ delays' = 0
    /\ pc' = "window"
    /\ LeaveBehind
    /\ UNCHANGED <<scanner, world, repo, commits, inflight, results, log, completed,
                   advanced, lastSent, failed>>

PullDelay ==
    /\ pc = "sleep"
    /\ pc' = "fetch"
    /\ UNCHANGED <<scanner, world, repo, locals, history>>

Kill ==
    /\ pc \notin {"panicked", "killed"}
    /\ pc' = "killed"
    /\ IdleNext
    /\ CutShort
    /\ UNCHANGED <<scanner, world, repo, completed, advanced, lastSent, failed>>

(* main cloning the index again at each start *)
RestartReclones ==
    /\ pc \in {"panicked", "killed"}
    /\ head' = Len(remote)
    /\ fetchHead' = Len(remote)
    /\ pc' = "fetch"
    /\ UNCHANGED <<scanner, world, locals, history>>

(* main again: Repository::open finds the repository as it was left *)
Restart ==
    /\ pc \in {"panicked", "killed"}
    /\ pc' = "fetch"
    /\ UNCHANGED <<scanner, world, repo, locals, history>>

Next ==
    \/ Subscribe \/ Unsubscribe
    \/ Fetch \/ FetchFail \/ Walk \/ WalkFail
    \/ PullReturns \/ Classify \/ ClassifyFail
    \/ ListSubscribers \/ SendStart \/ SendOk \/ SendErr \/ BroadcastDelay
    \/ NotifyReturns \/ FastForward \/ UpdateDelay \/ PullDelay
    \/ Kill \/ Restart

Spec == Init /\ [][Next]_vars

(* ------------- the poll loop of a process nobody ends ------------------ *)
(* the steps main and pull take by themselves: the tokio runtime resumes   *)
(* the poll task whenever its fetch, send or timer has completed           *)
PollStep ==
    \/ Fetch \/ Walk \/ PullReturns \/ Classify
    \/ ListSubscribers \/ SendStart \/ SendOk \/ BroadcastDelay
    \/ NotifyReturns \/ FastForward \/ UpdateDelay \/ PullDelay

NextRunning ==
    \/ Subscribe \/ Unsubscribe
    \/ Fetch \/ FetchFail \/ Walk \/ WalkFail
    \/ PullReturns \/ Classify \/ ClassifyFail
    \/ ListSubscribers \/ SendStart \/ SendOk \/ SendErr \/ BroadcastDelay
    \/ NotifyReturns \/ FastForward \/ UpdateDelay \/ PullDelay
    \/ Restart

FairSpec == Init /\ [][NextRunning]_vars /\ WF_vars(PollStep)

(* ------------------- diff_one, one callback at a time ------------------ *)
(* every diff of at most MaxLines lines; diff_one does not read the name  *)
(* of a record, so the records of one crate stand for all                  *)
ScannedLines == {l \in DiffLine : l.json # None => l.json[1].name = "a"}
BoundedDiffs == UNION {[1..n -> ScannedLines] : n \in 0..MaxLines}

InitClassify ==
    /\ remote = <<>> /\ subs = {} /\ channel = None
    /\ head = 0 /\ fetchHead = 0
    /\ pc = "diff_one"
    /\ Idle
    /\ completed = {} /\ advanced = {}
    /\ interrupted = {}
    /\ lastSent = [k \in Recipients \X Crates |-> 0]
    /\ failed = None
    /\ diff \in BoundedDiffs
    /\ pos = 0 /\ st = ScanStart /\ outcome = NoEvent

(* Diff::foreach hands the next line to the line callback *)
ForeachLine ==
    /\ pc = "diff_one"
    /\ ~st.panic
    /\ pos < Len(diff)
    /\ st' = LineCallback(st, diff[pos + 1])
    /\ pos' = pos + 1
    /\ UNCHANGED <<world, repo, pc, locals, history, diff, outcome>>

(* an assert! or expect of the callback unwinds out of diff_one *)
CallbackPanics ==
    /\ pc = "diff_one"
    /\ st.panic
    /\ outcome' = Finish(st)
    /\ pc' = "returned"
    /\ UNCHANGED <<world, repo, locals, history, diff, pos, st>>

(* the foreach is over: next.expect(..) and the match *)
Match ==
    /\ pc = "diff_one"
    /\ ~st.panic
    /\ pos = Len(diff)
    /\ outcome' = Finish(st)
    /\ pc' = "returned"
    /\ UNCHANGED <<world, repo, locals, history, diff, pos, st>>

NextClassify == ForeachLine \/ CallbackPanics \/ Match

SpecClassify == InitClassify /\ [][NextClassify]_vars

(* ----------------- fast_forward, called with any commit ---------------- *)
AllCommits == (0 - MaxFork)..MaxCommit

InitAdvance ==
    /\ remote = <<>> /\ subs = {} /\ channel = None
    /\ head \in AllCommits
    /\ fetchHead = head
    /\ pc = "ff"
    /\ \E c \in AllCommits : commits = <<head, c>>
    /\ w = 1
    /\ event = NoEvent /\ users = <<>> /\ idx = 0
    /\ inflight = None /\ results = <<>> /\ delays = 0 /\ log = <<>>
    /\ completed = {} /\ advanced = {}
    /\ interrupted = {}
    /\ lastSent = [k \in Recipients \X Crates |-> 0]
    /\ failed = None
    /\ diff = <<>> /\ pos = 0 /\ st = ScanStart /\ outcome = NoEvent

(* the next call of fast_forward, with any commit of the repository *)
CallAdvance ==
    /\ pc \in {"update_delay", "panicked"}
    /\ \E c \in AllCommits : commits' = <<head, c>>
    /\ w' = 1
    /\ pc' = "ff"
    /\ UNCHANGED <<scanner, world, repo, event, users, idx, inflight, results, delays, log,
                   history>>

NextAdvance == FastForward \/ CallAdvance

SpecAdvance == InitAdvance /\ [][NextAdvance]_vars

(* ============================== claims ================================ *)
Dispatching == pc \in {"notify", "send", "sending", "delay"}
Recip == Queue(channel, users)
Attempts == [i \in 1..Len(results) |-> results[i].chat]
HadFailure == \E i \in 1..Len(results) : ~results[i].ok
SendErrors == Cardinality({i \in 1..Len(log) : log[i] = "send error"})
Failures == Cardinality({i \in 1..Len(results) : ~results[i].ok})
(* fast_forward has just moved the checkpoint to the commit of the window *)
JustAdvanced == pc = "update_delay" /\ head = NextCommit /\ NextCommit \in advanced

(* C1: the checkpoint is moved to a commit only after the dispatch of that *)
(* commit has returned, every recipient it resolved having been attempted; *)
(* while a send of a dispatch is pending or still to start, the checkpoint *)
(* is not the commit of that dispatch.                                     *)
C1_AdvanceAfterDispatch ==
    /\ advanced \subseteq completed
    /\ Dispatching => head # NextCommit
    /\ pc \in {"ff", "update_delay"} => inflight = None /\ Attempts = Recip

C1_Witness ==
    /\ JustAdvanced
    /\ Len(Recip) = 3
    /\ HadFailure

(* C2: a window whose classification fails has no effect: no send is ever  *)
(* issued for its commit, its dispatch never returns, and the checkpoint   *)
(* is never moved to that commit or past it.                               *)
C2_FailedWindowNoEffect ==
    \A c \in 1..Len(remote) :
        DiffOne(TreeDiff(c - 1, c)).tag # "Ok" =>
            /\ head < c
            /\ \A d \in advanced : d < c
            /\ c \notin completed
            /\ c \notin interrupted
            /\ \A k \in DOMAIN lastSent : lastSent[k] # c

C2_Witness ==
    /\ failed # None
    /\ pc = "panicked"
    /\ failed[1].window = <<2, 3>>
    /\ head = 2
    /\ DiffOne(remote[3]).tag = "Panic"

(* the lines of a diff that belong to modified or added files *)
Tracked(l) == l.status \in {"Modified", "Added"}
Deleted(d) == {i \in 1..Len(d) : Tracked(d[i]) /\ d[i].origin = "-"}
Added(d) == {i \in 1..Len(d) : Tracked(d[i]) /\ d[i].origin = "+"}

(* C3 as stated: whenever diff_one reaches its match, the input            *)
(* (prev.yanked, next.yanked) and the outcome are one of the five rows     *)
(* the table lists.                                                        *)
ListedRows ==
    {<<None, FALSE, "NewVersion">>, <<Some(FALSE), TRUE, "Yanked">>,
     <<Some(TRUE), FALSE, "Unyanked">>, <<Some(TRUE), TRUE, "Err">>,
     <<Some(FALSE), FALSE, "Err">>}
Matched == pc = "returned" /\ ~st.panic /\ st.next # None
Row == <<PrevYanked(st.prev), st.next[1].yanked,
         IF outcome.tag = "Ok" THEN outcome.action ELSE outcome.tag>>
C3_ListedTableExhaustive == Matched => Row \in ListedRows

(* C3, amended: whenever diff_one reaches its match, the input and the     *)
(* outcome are one of the five listed rows or the sixth row                *)
(* (absent, true) -> error, and an Ok outcome carries the added record.    *)
C3_TableWithSixthRow ==
    Matched =>
        /\ Row \in ListedRows \cup {<<None, TRUE, "Err">>}
        /\ outcome.tag = "Ok" => outcome.krate = st.next

C3_Witness == Matched /\ Row = <<Some(TRUE), FALSE, "Unyanked">> /\ Len(diff) = 2

(* C4 as stated: when the checkpoint has moved to a commit, every          *)
(* recipient its dispatch resolved has been delivered the notification of  *)
(* that commit at least once.  Stated for the commits no earlier run has   *)
(* sent a notification of: their only sends are those of this dispatch.    *)
C4_EveryRecipientDelivered ==
    (JustAdvanced /\ head \notin interrupted) =>
        \A r \in Range(Recip) :
            \E i \in 1..Len(results) : results[i].chat = r /\ results[i].ok

(* C4, amended: when the checkpoint has moved to a commit, every recipient *)
(* its dispatch resolved (the channel if configured, and the subscribers   *)
(* list_subscribers returned, none if it failed) has had the notification  *)
(* of that commit sent to it at least once: the dispatch before the move   *)
(* has sent to it, and that send succeeded or failed and was logged.       *)
(* Checked in the state the move leads to; nothing undoes a send later.    *)
C4_EveryRecipientAttempted ==
    JustAdvanced =>
        /\ \A r \in Range(Recip) : \E i \in 1..Len(results) : results[i].chat = r
        /\ SendErrors = Failures

C4_Witness ==
    /\ JustAdvanced
    /\ Len(users) = 2
    /\ channel # None
    /\ ~results[2].ok
    /\ results[3].ok
    /\ head \notin interrupted

(* C5: per recipient and crate, notifications are sent in commit order:    *)
(* the commit of the latest send to a recipient for a crate never goes     *)
(* back, over poll cycles and restarts.                                    *)
C5_InOrderPerCrate ==
    [][\A k \in Recipients \X Crates : lastSent'[k] >= lastSent[k]]_vars

C5_Witness ==
    /\ pc = "sending"
    /\ inflight = Some(ChannelId)
    /\ NextCommit = 3
    /\ w = 1
    /\ lastSent[<<ChannelId, "a">>] = 3
    /\ remote[2] = Change("a", None, FALSE)
    /\ 2 \in completed

(* C6: no window that is classified or dispatched ends at a commit the     *)
(* checkpoint has reached: its commit is a strict descendant of the        *)
(* checkpoint, in the same cycle, a later cycle or after a restart.        *)
C6_NoRedelivery ==
    (Window # <<>> /\ (pc = "window" \/ Dispatching)) => NextCommit > head

C6_Witness ==
    /\ pc = "notify"
    /\ w = 1
    /\ advanced = {2}
    /\ head = 2
    /\ NextCommit = 3

(* C7 as stated: after a classification failure the checkpoint is the      *)
(* value it had when the cycle of the failure began, and the first window  *)
(* of a later cycle is the window that failed.                             *)
C7_CheckpointAtCycleStart ==
    failed # None =>
        /\ head = failed[1].cycleHead
        /\ (pc = "window" /\ w = 1) => Window = failed[1].window

(* C7, amended: after a classification failure the checkpoint is the       *)
(* previous commit of the failing window (the value it had when that       *)
(* window began: the windows before it in the cycle have moved it), and    *)
(* the first window of the next cycle, run after the restart of the        *)
(* process, is the window that failed.                                     *)
C7_CheckpointAtFailedWindow ==
    failed # None =>
        /\ head = failed[1].window[1]
        /\ (pc = "window" /\ w = 1) => Window = failed[1].window

C7_Witness ==
    /\ failed # None
    /\ failed[1].cycleHead < failed[1].window[1]
    /\ pc = "window"
    /\ w = 1
    /\ Window = failed[1].window

(* C8: a failed send does not end the dispatch or the cycle: from the      *)
(* first send on, the poll task leaves the dispatch only through           *)
(* fast_forward (or by being killed); after a dispatch with a failed send  *)
(* the checkpoint is the commit of the window, and the next window starts  *)
(* from it.                                                                *)
C8_SendFailureNotFatal ==
    /\ [][(pc \in {"send", "sending", "delay", "ff"}) =>
            (pc' \in {"send", "sending", "delay", "ff", "update_delay", "killed"})]_vars
    /\ [](HadFailure /\ pc = "update_delay" => JustAdvanced)
    /\ [](HadFailure /\ pc = "window" => w >= 2 /\ w <= Len(commits) /\ commits[w] = head)

C8_Witness ==
    /\ pc = "window"
    /\ Window # <<>>
    /\ w = 2
    /\ Len(results) = 3
    /\ ~results[2].ok
    /\ results[3].ok
    /\ head = 2

C10_EachRecipientOnce ==
    /\ pc \in {"send", "sending", "delay", "ff", "update_delay"} =>
          /\ Len(results) <= Len(Recip)
          /\ Attempts = SubSeq(Recip, 1, Len(results))
          /\ SendErrors = Failures
    /\ pc \in {"ff", "update_delay"} => Attempts = Recip

C10_Witness ==
    /\ pc = "ff"
    /\ Len(results) = 3
    /\ ~results[1].ok
    /\ ~results[2].ok
    /\ results[3].ok
    /\ SendErrors = 2

(* C11: a diff with two deleted lines, or two added lines, in modified or  *)
(* added files never classifies: diff_one returns no (record, action), it  *)
(* ends in the assert! of the callback when the second such line arrives,  *)
(* and prev and next never hold a line that replaced an earlier one.       *)
C11_TwoLinesAlwaysFail ==
    /\ (pc = "returned" /\ (Cardinality(Deleted(diff)) >= 2 \/ Cardinality(Added(diff)) >= 2))
          => outcome.tag = "Panic" /\ outcome.krate = None
    /\ \A i \in 1..pos :
          /\ (i \in Deleted(diff) /\ \E j \in 1..(i - 1) : j \in Deleted(diff))
                => st.panic
          /\ (i \in Added(diff) /\ \E j \in 1..(i - 1) : j \in Added(diff))
                => st.panic

C11_Witness ==
    /\ pc = "returned"
    /\ Len(diff) = 3
    /\ Cardinality(Deleted(diff)) = 2
    /\ Cardinality(Added(diff)) = 1
    /\ \A i \in 1..3 : diff[i].json # None
    /\ diff[1].origin = "+"
    /\ outcome.tag = "Panic"

(* C18: a line of a file whose change is neither modified nor added is     *)
(* never fatal and counts for nothing: after every callback prev and next  *)
(* are what the lines of the modified and added files alone give, and the  *)
(* result of diff_one is the result for those lines alone.                 *)
TrackedLines(d) == SelectSeq(d, Tracked)
C18_OtherDeltasSkipped ==
    /\ (pc = "diff_one" /\ ~st.panic) => st = Scan(TrackedLines(SubSeq(diff, 1, pos)))
    /\ pc = "returned" => outcome = DiffOne(TrackedLines(diff))
    /\ (pc = "returned" /\ TrackedLines(diff) = <<>>) => outcome.tag = "Panic"

C18_Witness ==
    /\ pc = "returned"
    /\ Len(diff) = 3
    /\ diff[1].status = "Deleted" /\ diff[1].origin = "-"
    /\ diff[2].status = "Modified" /\ diff[2].origin = "-"
    /\ diff[3].status = "Modified" /\ diff[3].origin = "+"
    /\ outcome.tag = "Ok"
    /\ outcome.action = "Yanked"

(* C20: a commit that adds one line whose record is already yanked and     *)
(* deletes none is a classification error: diff_one returns Err and no     *)
(* action, no notification of the commit is ever sent, its dispatch never  *)
(* starts and the checkpoint never moves to it.                            *)
AddsYanked(d) ==
    /\ Deleted(d) = {}
    /\ Cardinality(Added(d)) = 1
    /\ \A i \in Added(d) : d[i].json # None /\ d[i].json[1].yanked
C20_AddedYankedIsError ==
    \A c \in 1..Len(remote) :
        AddsYanked(remote[c]) =>
            /\ DiffOne(TreeDiff(c - 1, c)) = Outcome("Err", None, "none")
            /\ head # c
            /\ c \notin advanced
            /\ c \notin completed
            /\ \A k \in DOMAIN lastSent : lastSent[k] # c
            /\ (pc \in {"notify", "send", "sending", "delay", "ff", "update_delay"})
                  => NextCommit # c

C20_Witness ==
    /\ pc = "panicked"
    /\ failed # None
    /\ failed[1].window = <<2, 3>>
    /\ AddsYanked(remote[3])
    /\ head = 2
    /\ 2 \in advanced

(* C13: when list_subscribers fails in a dispatch the failure is logged,   *)
(* no subscriber is sent to, the channel is still sent to if configured,   *)
(* and the cycle goes on: the checkpoint moves to the commit of the window *)
(* and the next window starts from it.                                     *)
DbFailed == log # <<>> /\ log[1] = "db error while getting subscribers"
C13_StoreFailureSkipsSubscribers ==
    /\ (DbFailed /\ pc \in {"send", "sending", "delay", "ff", "update_delay"}) =>
          /\ users = <<>>
          /\ \A i \in 1..Len(results) : results[i].chat = ChannelId
    /\ (DbFailed /\ pc \in {"ff", "update_delay"}) => Attempts = channel
    /\ (DbFailed /\ pc = "update_delay") => JustAdvanced
    /\ (DbFailed /\ pc = "window") => (w >= 2 /\ w <= Len(commits) /\ commits[w] = head)

C13_Witness ==
    /\ DbFailed
    /\ pc = "window"
    /\ Window # <<>>
    /\ w = 2
    /\ head = 2
    /\ channel # None
    /\ Len(results) = 1
    /\ Subscribers("a") # {}
    /\ remote[2] = Change("a", None, FALSE)
    /\ lastSent[<<ChannelId, "a">>] = 2

(* C12: a failed fetch aborts the cycle only: nothing is dispatched, the   *)
(* checkpoint is unchanged and the poll loop keeps running, going to its   *)
(* sleep and to the next poll.  From the fetch the poll task goes on to    *)
(* the walk, or to the sleep with the checkpoint as it was, unless the     *)
(* process is killed from outside.                                         *)
C12_FetchFailureRetried ==
    [][(pc = "fetch") =>
          /\ pc' \in {"fetch", "walk", "sleep", "killed"}
          /\ head' = head
          /\ lastSent' = lastSent]_vars

(* C15: for every checkpoint and fetched head the walk yields the          *)
(* checkpoint and the commits after it up to the fetched head, oldest      *)
(* first, and the windows are the consecutive pairs of that sequence, the  *)
(* first being (checkpoint, first new commit); there is no window when     *)
(* there is no new commit.                                                 *)
C15_WalkerWindows ==
    /\ [][(pc = "walk" /\ pc' \notin {"walk", "killed"}) =>
            /\ pc' = "window"
            /\ w' = 1
            /\ commits' = [i \in 1..(fetchHead - head + 1) |-> head + i - 1]]_vars
    /\ [](pc = "window" => (Window = <<>> <=> head = fetchHead))
    /\ [](Window # <<>> => Window = <<commits[1] + w - 1, commits[1] + w>>)

(* C16: ending the process anywhere and starting it again skips no commit: *)
(* the checkpoint moves only by fast_forward, one commit at a time, to the *)
(* commit of a window whose dispatch has returned in this run with every   *)
(* resolved recipient attempted; a process that has ended leaves the       *)
(* checkpoint where it was, and the first window of a run starts at it.    *)
C16_RestartSafe ==
    /\ [][head' # head =>
            /\ pc = "ff"
            /\ head' = head + 1
            /\ head' = NextCommit
            /\ inflight = None
            /\ Attempts = Recip
            /\ NextCommit \in completed]_vars
    /\ [][(pc \in {"panicked", "killed"} \/ pc' \in {"panicked", "killed"}) =>
            (head' = head /\ fetchHead' = fetchHead)]_vars
    /\ []((pc = "window" /\ w = 1 /\ Window # <<>>) => Window = <<head, head + 1>>)

C16_Witness ==
    /\ pc = "window"
    /\ w = 1
    /\ Window = <<2, 3>>
    /\ head = 2
    /\ advanced = {2}
    /\ 3 \in interrupted

(* C19: the subscribers of a dispatch are read from the store once, before *)
(* its first send, the channel send included; a subscribe or unsubscribe   *)
(* during the dispatch does not change them: every send of the dispatch    *)
(* goes to the next recipient of the list as it was read.                  *)
C19_RecipientsReadOnce ==
    /\ [][users' # users => (pc = "notify" \/ users' = <<>>)]_vars
    /\ [][(pc \in {"send", "sending", "delay"} /\ pc' \notin {"killed", "panicked"}) =>
            users' = users]_vars
    /\ [][(inflight = None /\ inflight' # None) =>
            (pc = "send" /\ inflight' = Some(Queue(channel, users)[idx]))]_vars
    /\ [](pc = "notify" => inflight = None)
    /\ [](pc = "ff" => Attempts = Queue(channel, users))

C19_Witness ==
    /\ pc = "ff"
    /\ Len(users) = 1
    /\ Attempts = Queue(channel, users)
    /\ users[1] \notin Subscribers(event.krate[1].name)
    /\ Subscribers(event.krate[1].name) # {}
    /\ results[Len(results)].ok

ClassifiesUpTo(c) == \A i \in 1..c : DiffOne(remote[i]).tag = "Ok"
C17_EveryCommitReached ==
    /\ [][head' # head => head' = head + 1]_vars
    /\ [](pc = "sleep" => head = fetchHead)
    /\ \A c \in 1..MaxCommit :
          []((Len(remote) >= c /\ ClassifiesUpTo(c)) => <>(head >= c))

====
